---- MODULE Spec2Model ----
(***************************************************************************)
(* Model of SimpleXMLProcessor (src/simple_parser.py): analyze / fix of a  *)
(* PIXID invoice.  Numbers are modelled as Python computes them: float is  *)
(* IEEE-754 binary64 (correctly rounded parse, +, -, *, /, repr, '.2f'),   *)
(* Decimal is exact decimal arithmetic with ROUND_HALF_EVEN formatting.    *)
(* TLC integers are 32 bits wide, so the 53-bit significands are carried   *)
(* as little-endian sequences of limbs.                                    *)
(***************************************************************************)
EXTENDS Integers, Sequences, FiniteSets, TLC

(***************************************************************************)
(* Arbitrary-precision naturals: <<>> is 0, a[1] is the least limb.        *)
(***************************************************************************)
LimbBase == 2^15

RECURSIVE Trim(_)
Trim(a) == IF a = <<>> THEN a
           ELSE IF a[Len(a)] = 0 THEN Trim(SubSeq(a, 1, Len(a) - 1)) ELSE a

RECURSIVE Big(_)
Big(n) == IF n = 0 THEN <<>> ELSE <<n % LimbBase>> \o Big(n \div LimbBase)

RECURSIVE Small(_)
Small(a) == IF a = <<>> THEN 0 ELSE a[1] + LimbBase * Small(Tail(a))

Limb(a, i) == IF i <= Len(a) THEN a[i] ELSE 0

RECURSIVE BCmpAt(_, _, _)
BCmpAt(a, b, i) == IF i = 0 THEN 0
                   ELSE IF a[i] < b[i] THEN -1
                   ELSE IF a[i] > b[i] THEN 1
                   ELSE BCmpAt(a, b, i - 1)

BCmp(a, b) == IF Len(a) < Len(b) THEN -1
              ELSE IF Len(a) > Len(b) THEN 1
              ELSE BCmpAt(a, b, Len(a))

RECURSIVE BAddAt(_, _, _, _)
BAddAt(a, b, i, carry) ==
    IF i > Len(a) /\ i > Len(b)
    THEN (IF carry = 0 THEN <<>> ELSE <<carry>>)
    ELSE LET s == Limb(a, i) + Limb(b, i) + carry
         IN  <<s % LimbBase>> \o BAddAt(a, b, i + 1, s \div LimbBase)

BAdd(a, b) == BAddAt(a, b, 1, 0)

RECURSIVE BSubAt(_, _, _, _)
BSubAt(a, b, i, borrow) ==
    IF i > Len(a) THEN <<>>
    ELSE LET s == a[i] - Limb(b, i) - borrow
         IN  IF s < 0 THEN <<s + LimbBase>> \o BSubAt(a, b, i + 1, 1)
                      ELSE <<s>> \o BSubAt(a, b, i + 1, 0)

\* a - b for a >= b
BSub(a, b) == Trim(BSubAt(a, b, 1, 0))

RECURSIVE BMulSAt(_, _, _, _)
BMulSAt(a, s, i, carry) ==
    IF i > Len(a) THEN (IF carry = 0 THEN <<>> ELSE <<carry>>)
    ELSE LET p == a[i] * s + carry
         IN  <<p % LimbBase>> \o BMulSAt(a, s, i + 1, p \div LimbBase)

\* a * s for a limb-sized s
BMulS(a, s) == IF s = 0 THEN <<>> ELSE BMulSAt(a, s, 1, 0)

RECURSIVE BMul(_, _)
BMul(a, b) == IF b = <<>> \/ a = <<>> THEN <<>>
              ELSE BAdd(BMulS(a, b[1]), IF Tail(b) = <<>> THEN <<>> ELSE <<0>> \o BMul(a, Tail(b)))

RECURSIVE BDivSAt(_, _, _, _)
BDivSAt(a, s, i, rem) ==
    IF i = 0 THEN [q |-> <<>>, r |-> rem]
    ELSE LET cur  == rem * LimbBase + a[i]
             rest == BDivSAt(a, s, i - 1, cur % s)
         IN  [q |-> rest.q \o <<cur \div s>>, r |-> rest.r]

\* quotient and remainder of a by a limb-sized s
BDivS(a, s) == LET d == BDivSAt(a, s, Len(a), 0) IN [q |-> Trim(d.q), r |-> d.r]

RECURSIVE Zeros(_)
Zeros(n) == IF n = 0 THEN <<>> ELSE <<0>> \o Zeros(n - 1)

\* a * 2^k
BShl(a, k) == IF a = <<>> THEN <<>> ELSE Zeros(k \div 15) \o BMulS(a, 2^(k % 15))

\* floor(a / 2^k)
BShr(a, k) == IF k \div 15 >= Len(a) THEN <<>>
              ELSE BDivS(SubSeq(a, (k \div 15) + 1, Len(a)), 2^(k % 15)).q

RECURSIVE SmallBits(_)
SmallBits(n) == IF n = 0 THEN 0 ELSE 1 + SmallBits(n \div 2)

\* number of binary digits of a
BBits(a) == IF a = <<>> THEN 0 ELSE 15 * (Len(a) - 1) + SmallBits(a[Len(a)])

BOdd(a) == a # <<>> /\ a[1] % 2 = 1

\* the greatest q <= qhat with q * b <= cur, p being qhat * b
RECURSIVE BDivLimbAt(_, _, _, _)
BDivLimbAt(cur, b, qhat, p) ==
    IF BCmp(p, cur) <= 0 THEN [q |-> qhat, r |-> BSub(cur, p)]
    ELSE BDivLimbAt(cur, b, qhat - 1, BSub(p, b))

BDivLimb(cur, b, qhat) == BDivLimbAt(cur, b, qhat, BMulS(b, qhat))

\* the quotient limb estimated from the top two limbs of the running
\* remainder cur, for a divisor b whose top limb is at least LimbBase / 2
BDivEst(cur, b) ==
    LET est == (Limb(cur, Len(b) + 1) * LimbBase + Limb(cur, Len(b))) \div b[Len(b)]
    IN  IF est >= LimbBase THEN LimbBase - 1 ELSE est

\* long division (Knuth's algorithm D) of the limbs i..1 of a by b, whose top
\* limb is at least LimbBase / 2; q and r are the quotient and the remainder
\* of the limbs above i.  The quotient limb is estimated from the top two
\* limbs of the running remainder and corrected downwards.
RECURSIVE BDivModAt(_, _, _, _, _)
\* the limb d.q joins the quotient and d.r is the running remainder
BDivModPut(a, b, i, q, d) ==
    IF d.q = 0 THEN BDivModAt(a, b, i - 1, <<0>> \o q, d.r)
               ELSE BDivModAt(a, b, i - 1, <<d.q>> \o q, d.r)

BDivModCur(a, b, i, q, cur) == BDivModPut(a, b, i, q, BDivLimb(cur, b, BDivEst(cur, b)))

BDivModAt(a, b, i, q, r) ==
    IF i = 0 THEN [q |-> q, r |-> r]
    ELSE BDivModCur(a, b, i, q, Trim(<<a[i]>> \o r))

\* the shift that brings the top limb of b to at least LimbBase / 2
BNorm(b) == 15 - SmallBits(b[Len(b)])

BDivModOut(d, s) == [q |-> Trim(d.q), r |-> BShr(d.r, s)]

BDivModOf(a, b, s) == BDivModOut(BDivModAt(a, b, Len(a), <<>>, <<>>), s)

\* quotient and remainder of a by b > 0
BDivMod(a, b) == BDivModOf(BShl(a, BNorm(b)), BShl(b, BNorm(b)), BNorm(b))

\* the quotient d.q, or the next integer when 2 * d.r compares as c > 0 to
\* the divisor, or equals it and d.q is odd
BRoundUp(d, c) == IF c > 0 \/ (c = 0 /\ BOdd(d.q)) THEN BAdd(d.q, <<1>>) ELSE d.q

BRoundOf(d, b) == BRoundUp(d, BCmp(BShl(d.r, 1), b))

\* the integer nearest to a / b, ties to the even one
BRoundDiv(a, b) == BRoundOf(BDivMod(a, b), b)

RECURSIVE BPow10(_)
BPow10(n) == IF n = 0 THEN <<1>>
             ELSE LET h == BPow10(n \div 2)
                  IN  IF n % 2 = 0 THEN BMul(h, h) ELSE BMulS(BMul(h, h), 10)

(***************************************************************************)
(* Python float: IEEE-754 binary64.  A float is [m, e] with value m * 2^e, *)
(* m = <<>> for zero and otherwise a 53-bit significand.  Every operation  *)
(* is the exact rational result rounded to nearest, ties to even (the      *)
(* values of this model stay far from overflow and subnormals).            *)
(***************************************************************************)
MantBits == 53

FlZero == [m |-> <<>>, e |-> 0]

\* n * 2^j and d * 2^-j as integers
FlScaleN(n, j) == IF j >= 0 THEN BShl(n, j) ELSE n
FlScaleD(d, j) == IF j >= 0 THEN d ELSE BShl(d, -j)

\* the k with 2^(MantBits-1) <= n * 2^k / d < 2^MantBits, k0 being its estimate
\* from the lengths of n and d
FlExp(n, d, k0) ==
    IF BCmp(FlScaleN(n, k0), BShl(FlScaleD(d, k0), MantBits)) >= 0 THEN k0 - 1 ELSE k0

FlPack(m, k) == IF BBits(m) > MantBits THEN [m |-> BShr(m, 1), e |-> 1 - k]
                                       ELSE [m |-> m, e |-> -k]

FlRoundAt(n, d, k) == FlPack(BRoundDiv(FlScaleN(n, k), FlScaleD(d, k)), k)

\* the float nearest to the rational n / d, d > 0
FlRound(n, d) ==
    IF n = <<>> THEN FlZero
    ELSE FlRoundAt(n, d, FlExp(n, d, MantBits + BBits(d) - BBits(n)))

\* numerator and denominator of the exact value of a float
FlNum(f) == IF f.e >= 0 THEN BShl(f.m, f.e) ELSE f.m
FlDen(f) == IF f.e >= 0 THEN <<1>> ELSE BShl(<<1>>, -f.e)

\* float(text) for a decimal numeral: c / 10^p
FlParse(c, p) == FlRound(Big(c), BPow10(p))

FlAdd(a, b) ==
    IF a = FlZero THEN b
    ELSE IF b = FlZero THEN a
    ELSE FlRound(BAdd(BMul(FlNum(a), FlDen(b)), BMul(FlNum(b), FlDen(a))),
                 BMul(FlDen(a), FlDen(b)))

FlLess(a, b) == BCmp(BMul(FlNum(a), FlDen(b)), BMul(FlNum(b), FlDen(a))) < 0

\* |x - y| / d rounded
FlAbsOf(x, y, d) == FlRound(IF BCmp(x, y) >= 0 THEN BSub(x, y) ELSE BSub(y, x), d)

\* abs(a - b)
FlAbsSub(a, b) ==
    FlAbsOf(BMul(FlNum(a), FlDen(b)), BMul(FlNum(b), FlDen(a)), BMul(FlDen(a), FlDen(b)))

FlMul(a, b) ==
    IF a = FlZero \/ b = FlZero THEN FlZero
    ELSE FlRound(BMul(FlNum(a), FlNum(b)), BMul(FlDen(a), FlDen(b)))

\* a / b for b # 0
FlDiv(a, b) ==
    IF a = FlZero \/ b = FlZero THEN FlZero
    ELSE FlRound(BMul(FlNum(a), FlDen(b)), BMul(FlDen(a), FlNum(b)))

\* f'{x:.2f}' of a float, as a count of hundredths
FlFmt2(f) == IF f = FlZero THEN 0 ELSE Small(BRoundDiv(BMulS(FlNum(f), 100), FlDen(f)))

\* floor(log10(n / d)) for n > 0
RECURSIVE FloorLog10(_, _)
FloorLog10(n, d) == IF BCmp(n, BMulS(d, 10)) >= 0 THEN 1 + FloorLog10(n, BMulS(d, 10))
                    ELSE IF BCmp(n, d) < 0 THEN FloorLog10(BMulS(n, 10), d) - 1
                    ELSE 0

(***************************************************************************)
(* decimal.Decimal: [n, p] with value n / 10^p.                            *)
(***************************************************************************)
DecPrec == 28

\* the rational n / d rounded to p decimals, or to a multiple of 10^-p
DecRoundAt(n, d, p) ==
    IF p >= 0 THEN [n |-> BRoundDiv(BMul(n, BPow10(p)), d), p |-> p]
              ELSE [n |-> BMul(BRoundDiv(n, BMul(d, BPow10(-p))), BPow10(-p)), p |-> 0]

\* the rational n / d rounded to nd significant decimal digits
DecRound(n, d, nd) ==
    IF n = <<>> THEN [n |-> <<>>, p |-> 0]
    ELSE DecRoundAt(n, d, nd - 1 - FloorLog10(n, d))

\* str(x) of a float: the shortest decimal that float() reads back as x,
\* searched between lo and hi significant digits; c is x to mid digits
RECURSIVE FlReprIn(_, _, _)
FlReprTry(f, lo, hi, mid, c) ==
    IF lo = hi THEN c
    ELSE IF FlRound(c.n, BPow10(c.p)) = f THEN FlReprIn(f, lo, mid)
    ELSE FlReprIn(f, mid + 1, hi)

FlReprIn(f, lo, hi) ==
    FlReprTry(f, lo, hi, (lo + hi) \div 2, DecRound(FlNum(f), FlDen(f), (lo + hi) \div 2))

FlRepr(f) == IF f = FlZero THEN [n |-> <<>>, p |-> 1] ELSE FlReprIn(f, 1, 17)

\* a * b, exact while the product has at most DecPrec digits
DecMul(a, b) ==
    IF a.n = <<>> \/ b.n = <<>> THEN [n |-> <<>>, p |-> a.p + b.p]
    ELSE [n |-> BMul(a.n, b.n), p |-> a.p + b.p]

\* a / b for b # 0, rounded to the context precision
DecDiv(a, b) ==
    IF a.n = <<>> \/ b.n = <<>> THEN [n |-> <<>>, p |-> 0]
    ELSE DecRound(BMul(a.n, BPow10(b.p)), BMul(b.n, BPow10(a.p)), DecPrec)

\* float(d) of a Decimal
DecToFloat(d) == IF d.n = <<>> THEN FlZero ELSE FlRound(d.n, BPow10(d.p))

\* f'{d:.2f}' of a Decimal, as a count of hundredths
DecFmt2(d) == IF d.n = <<>> THEN 0 ELSE Small(BRoundDiv(BMulS(d.n, 100), BPow10(d.p)))

(***************************************************************************)
(* Character data.  A piece of text is a two-decimal numeral ("8.00",      *)
(* value c hundredths, pad: written with blanks around it) or a sequence   *)
(* of words; nl counts the line breaks that end it.  NoText is the empty   *)
(* string, and Python's None.                                              *)
(***************************************************************************)
NoText == [num |-> FALSE, c |-> 0, pad |-> FALSE, ws |-> <<>>, nl |-> 0]

Num(c) == [num |-> TRUE, c |-> c, pad |-> FALSE, ws |-> <<>>, nl |-> 0]

Padded(c) == [num |-> TRUE, c |-> c, pad |-> TRUE, ws |-> <<>>, nl |-> 0]

Str(ws) == [num |-> FALSE, c |-> 0, pad |-> FALSE, ws |-> ws, nl |-> 0]

\* str.lower() of a word
Lower(w) == CASE w = "Heures" -> "heures"
              [] w = "HEURES" -> "heures"
              [] w = "Hours"  -> "hours"
              [] w = "Panier" -> "panier"
              [] w = "RTT"    -> "rtt"
              [] w = "Supplementaires" -> "supplementaires"
              [] OTHER -> w

\* pat in w, for a word w and the substrings the code looks for
\* ("Supplementaire" stands for the code's 'Supplémentaire')
InWord(pat, w) == \/ pat = w
                  \/ pat = "heure" /\ w = "heures"
                  \/ pat = "Supplementaire" /\ w = "Supplementaires"

\* pat in s, for a string s given as its words
InWords(pat, ws) == \E i \in 1..Len(ws) : InWord(pat, ws[i])

LowerWords(ws) == [i \in 1..Len(ws) |-> Lower(ws[i])]

\* the sequence a ends with the sequence suf (str.endswith on tag names,
\* which are kept as their words: TimeCard is <<"Time", "Card">>)
EndsWith(a, suf) == /\ Len(a) >= Len(suf)
                    /\ SubSeq(a, Len(a) - Len(suf) + 1, Len(a)) = suf

(***************************************************************************)
(* XML text.  A line is a sequence of tokens: a start tag <pre:name        *)
(* attr="val">, an end tag </pre:name>, character data, or the comment     *)
(* that fix writes.  A text is a sequence of lines (xml_string split at    *)
(* its line breaks).                                                       *)
(***************************************************************************)
Open(pre, name, attr, val) ==
    [k |-> "open", pre |-> pre, name |-> name, attr |-> attr, val |-> val, t |-> NoText]

Close(pre, name) ==
    [k |-> "close", pre |-> pre, name |-> name, attr |-> "", val |-> <<>>, t |-> NoText]

Chars(t) == [k |-> "text", pre |-> "", name |-> <<>>, attr |-> "", val |-> <<>>, t |-> t]

\* '<!-- Ligne supprimée: HS/RTT hors période -->'
RemovedComment ==
    [k |-> "comment", pre |-> "", name |-> <<>>, attr |-> "", val |-> <<>>,
     t |-> Str(<<"Ligne", "supprimee:", "HS/", "RTT", "hors", "periode">>)]

\* <name attr="val">t</name> on one line
Elem(pre, name, attr, val, t) == <<Open(pre, name, attr, val), Chars(t), Close(pre, name)>>

\* the tokens of a text in order, each with eol: it ends its line
RECURSIVE Stream(_)
Stream(text) ==
    IF text = <<>> THEN <<>>
    ELSE [i \in 1..Len(text[1]) |-> [tok |-> text[1][i], eol |-> i = Len(text[1])]]
         \o Stream(Tail(text))

\* '\n'.join(lines).split('\n'): a line break inside a piece of character
\* data ends the line there
RECURSIVE SplitLine(_, _)
SplitLine(line, i) ==
    IF i > Len(line) THEN <<line>>
    ELSE IF line[i].k = "text" /\ line[i].t.nl > 0
         THEN <<SubSeq(line, 1, i - 1) \o <<Chars([line[i].t EXCEPT !.nl = 0])>>>>
              \o SplitLine(SubSeq(line, i + 1, Len(line)), 1)
         ELSE SplitLine(line, i + 1)

RECURSIVE JoinLines(_)
JoinLines(lines) ==
    IF lines = <<>> THEN <<>> ELSE SplitLine(lines[1], 1) \o JoinLines(Tail(lines))

(***************************************************************************)
(* ET.fromstring: the elements in document order, each with its depth, or  *)
(* a ParseError.  The text of an element is the character data that        *)
(* follows its start tag, with the line break when the data ends the line. *)
(***************************************************************************)
NodeOf(s, i, depth) ==
    [pre |-> s[i].tok.pre, name |-> s[i].tok.name, attr |-> s[i].tok.attr,
     val |-> s[i].tok.val, depth |-> depth,
     text |-> IF i < Len(s) /\ s[i + 1].tok.k = "text"
              THEN [s[i + 1].tok.t EXCEPT !.nl = IF s[i + 1].eol THEN 1 ELSE 0]
              ELSE NoText]

\* the parser at token i: p.stack the open elements, p.nodes the elements
\* read, p.ok FALSE once the text is found ill-formed
RECURSIVE ParseAt(_, _, _)
ParseAt(s, i, p) ==
    IF ~p.ok THEN [ok |-> FALSE, nodes |-> <<>>]
    ELSE IF i > Len(s) THEN [ok |-> p.stack = <<>> /\ p.nodes # <<>>, nodes |-> p.nodes]
    ELSE LET x == s[i].tok
             bad == [p EXCEPT !.ok = FALSE]
         IN  ParseAt(s, i + 1,
               CASE x.k = "open" ->
                    IF \/ p.stack = <<>> /\ p.nodes # <<>>
                       \/ x.pre # "" /\ (p.nodes = <<>>
                                         \/ p.nodes[1].attr \o ":" # "xmlns:" \o x.pre)
                    THEN bad
                    ELSE [p EXCEPT !.stack = Append(@, <<x.pre, x.name>>),
                                   !.nodes = Append(@, NodeOf(s, i, Len(p.stack)))]
                 [] x.k = "close" ->
                    IF p.stack # <<>> /\ p.stack[Len(p.stack)] = <<x.pre, x.name>>
                    THEN [p EXCEPT !.stack = SubSeq(@, 1, Len(@) - 1)]
                    ELSE bad
                 [] x.k = "text" -> IF p.stack = <<>> THEN bad ELSE p
                 [] OTHER -> p)

fromstring(text) == ParseAt(Stream(text), 1, [ok |-> TRUE, stack |-> <<>>, nodes |-> <<>>])

\* the last index of the subtree of node i: elem.iter() runs over i..Last
RECURSIVE SubtreeEnd(_, _, _)
SubtreeEnd(nodes, i, j) ==
    IF j < Len(nodes) /\ nodes[j + 1].depth > nodes[i].depth
    THEN SubtreeEnd(nodes, i, j + 1) ELSE j

Last(nodes, i) == SubtreeEnd(nodes, i, i)

\* _get_parent: the element that holds node j, 0 for the root
RECURSIVE ParentAt(_, _, _)
ParentAt(nodes, j, i) ==
    IF i = 0 THEN 0
    ELSE IF nodes[i].depth = nodes[j].depth - 1 THEN i ELSE ParentAt(nodes, j, i - 1)

_get_parent(nodes, j) == ParentAt(nodes, j, j - 1)

(***************************************************************************)
(* SimpleXMLProcessor.analyze.  The extraction steps carry                 *)
(* [data, exc]: self.data as it stands, and the exception that left the    *)
(* step ("" for none); a raised exception ends every later step.           *)
(***************************************************************************)
truthy(t) == t # NoText

\* float(text) accepts a numeral, with or without blanks around it
IsFloat(t) == t.num

float(t) == FlParse(t.c, 2)

\* element.get(attr, default)
Get(n, attr, default) == IF n.attr = attr THEN n.val ELSE default

\* date_parser.parse(text).date(): 0 when the text is no date
DateOf(t) == IF t.num \/ Len(t.ws) # 1 THEN 0
             ELSE CASE t.ws[1] = "2024-08-26" -> 20240826
                    [] t.ws[1] = "2024-08-30" -> 20240830
                    [] t.ws[1] = "2024-08-30T18:00:00" -> 20240830
                    [] t.ws[1] = "2024-08-31" -> 20240831
                    [] OTHER -> 0

RECURSIVE InvoiceIdAt(_, _)
InvoiceIdAt(nodes, i) ==
    IF i > Len(nodes) THEN Str(<<"UNKNOWN">>)
    ELSE LET parent == _get_parent(nodes, i)
         IN  IF /\ EndsWith(nodes[i].name, <<"Id">>)
                /\ parent # 0
                /\ EndsWith(nodes[parent].name, <<"Document", "Ids">>)
                /\ truthy(nodes[i].text)
             THEN [nodes[i].text EXCEPT !.pad = FALSE, !.nl = 0]
             ELSE InvoiceIdAt(nodes, i + 1)

_get_invoice_id(nodes) == InvoiceIdAt(nodes, 1)

NewData(nodes) ==
    [invoice_id |-> _get_invoice_id(nodes), period_start |-> NoText, period_end |-> NoText,
     raf_hours |-> FlZero, invoice_hours |-> FlZero, lines |-> <<>>,
     total_charges |-> FlZero, total_tax |-> FlZero, total_amount |-> FlZero,
     vat_rate |-> 20, has_issue |-> FALSE, issue_message |-> <<>>]

ValueError(st) == [st EXCEPT !.exc = "ValueError"]

\* 'heure' in s.lower()
MentionsHeure(ws) == InWords("heure", LowerWords(ws))

\* the children j.. of the interval i
RECURSIVE IntervalAt(_, _, _, _)
IntervalAt(nodes, i, j, st) ==
    IF j > Last(nodes, i) \/ st.exc # "" THEN st
    ELSE IF /\ nodes[j].depth = nodes[i].depth + 1
            /\ EndsWith(nodes[j].name, <<"Duration">>)
            /\ truthy(nodes[j].text)
            /\ MentionsHeure(Get(nodes[i], "type", <<>>))
         THEN IF IsFloat(nodes[j].text)
              THEN IntervalAt(nodes, i, j + 1,
                       [st EXCEPT !.data.raf_hours = FlAdd(@, float(nodes[j].text))])
              ELSE ValueError(st)
         ELSE IntervalAt(nodes, i, j + 1, st)

_process_time_interval(nodes, i, st) == IntervalAt(nodes, i, i + 1, st)

\* for child in elem.iter(), from child j on, elem being node i
RECURSIVE TimeCardAt(_, _, _, _)
TimeCardAt(nodes, i, j, st) ==
    IF j > Last(nodes, i) \/ st.exc # "" THEN st
    ELSE LET n == nodes[j]
         IN  TimeCardAt(nodes, i, j + 1,
               IF EndsWith(n.name, <<"Period", "Start", "Date">>)
               THEN (IF truthy(n.text) THEN [st EXCEPT !.data.period_start = n.text] ELSE st)
               ELSE IF EndsWith(n.name, <<"Period", "End", "Date">>)
               THEN (IF truthy(n.text) THEN [st EXCEPT !.data.period_end = n.text] ELSE st)
               ELSE IF EndsWith(n.name, <<"Time", "Interval">>)
               THEN _process_time_interval(nodes, j, st)
               ELSE st)

\* for elem in self.root.iter(), from elem i on
RECURSIVE TimeCardsAt(_, _, _)
TimeCardsAt(nodes, i, st) ==
    IF i > Len(nodes) \/ st.exc # "" THEN st
    ELSE TimeCardsAt(nodes, i + 1,
             IF EndsWith(nodes[i].name, <<"Time", "Card">>)
             THEN TimeCardAt(nodes, i, i, st) ELSE st)

_extract_timecards(nodes, st) == TimeCardsAt(nodes, 1, st)

\* line_data as _extract_line starts it, with the exception that ends its loop
NewLine == [description |-> NoText, quantity |-> FlZero, unit |-> <<>>, total |-> FlZero,
            exc |-> ""]

\* for child in line_elem.iter(), from child j on
RECURSIVE LineAt(_, _, _, _)
LineAt(nodes, i, j, ld) ==
    IF j > Last(nodes, i) \/ ld.exc # "" THEN ld
    ELSE LET n == nodes[j]
             parent == _get_parent(nodes, j)
         IN  IF EndsWith(n.name, <<"Description">>)
             THEN LineAt(nodes, i, j + 1,
                      IF Get(n, "owner", <<>>) = <<>> /\ truthy(n.text)
                      THEN [ld EXCEPT !.description = n.text] ELSE ld)
             ELSE IF EndsWith(n.name, <<"Item", "Quantity">>)
             THEN (IF ~truthy(n.text) THEN LineAt(nodes, i, j + 1, ld)
                   ELSE IF IsFloat(n.text)
                   THEN LineAt(nodes, i, j + 1,
                            [ld EXCEPT !.quantity = float(n.text),
                                       !.unit = Get(n, "uom", <<"PCE">>)])
                   ELSE ValueError(ld))
             ELSE IF EndsWith(n.name, <<"Total">>)
             THEN (IF ~(parent # 0 /\ EndsWith(nodes[parent].name, <<"Charge">>) /\ truthy(n.text))
                   THEN LineAt(nodes, i, j + 1, ld)
                   ELSE IF IsFloat(n.text)
                   THEN LineAt(nodes, i, j + 1, [ld EXCEPT !.total = float(n.text)])
                   ELSE ValueError(ld))
             ELSE LineAt(nodes, i, j + 1, ld)

\* line_data with exc, and none: the line is dropped (total not above 0)
LineData(ld) ==
    [line |-> [description |-> ld.description, quantity |-> ld.quantity,
               unit |-> ld.unit, total |-> ld.total],
     exc  |-> ld.exc,
     none |-> ~FlLess(FlZero, ld.total)]

_extract_line(nodes, i) == LineData(LineAt(nodes, i, i, NewLine))

InvoiceLine(st, ld) ==
    IF ld.exc # "" THEN ValueError(st)
    ELSE IF ld.none THEN st
    ELSE [st EXCEPT !.data.lines = Append(@, ld.line),
                    !.data.invoice_hours =
                        IF /\ ld.line.unit \in {<<"HUR">>, <<"hur">>}
                           /\ MentionsHeure(ld.line.description.ws)
                        THEN FlAdd(@, ld.line.quantity) ELSE @]

\* a total element: its float goes to the field f
InvoiceTotal(st, f, t) ==
    IF ~truthy(t) THEN st
    ELSE IF IsFloat(t) THEN [st EXCEPT !.data[f] = float(t)]
    ELSE ValueError(st)

\* for elem in self.root.iter(), from elem i on
RECURSIVE InvoiceDataAt(_, _, _)
InvoiceDataAt(nodes, i, st) ==
    IF i > Len(nodes) \/ st.exc # "" THEN st
    ELSE LET n == nodes[i]
         IN  InvoiceDataAt(nodes, i + 1,
               IF EndsWith(n.name, <<"Total", "Charges">>)
               THEN InvoiceTotal(st, "total_charges", n.text)
               ELSE IF EndsWith(n.name, <<"Total", "Tax">>)
               THEN InvoiceTotal(st, "total_tax", n.text)
               ELSE IF EndsWith(n.name, <<"Total", "Amount">>)
               THEN InvoiceTotal(st, "total_amount", n.text)
               ELSE IF EndsWith(n.name, <<"Line">>)
               THEN InvoiceLine(st, _extract_line(nodes, i))
               ELSE st)

_extract_invoice_data(nodes, st) == InvoiceDataAt(nodes, 1, st)

\* abs(raf_hours - invoice_hours) > 0.01
HoursDiffer(d) == FlLess(FlParse(1, 2), FlAbsSub(d.raf_hours, d.invoice_hours))

\* both bounds are set and parse, to the same day, and invoice_hours > 12
SingleDayOverfull(d) ==
    /\ truthy(d.period_start) /\ truthy(d.period_end)
    /\ DateOf(d.period_start) # 0 /\ DateOf(d.period_end) # 0
    /\ DateOf(d.period_start) = DateOf(d.period_end)
    /\ FlLess(FlParse(12, 0), d.invoice_hours)

\* has_issue and issue_message, for the outcome of the two tests
Issues(d, differ, overfull) ==
    [d EXCEPT !.has_issue = differ \/ overfull,
              !.issue_message =
                  (IF differ
                   THEN <<[msg |-> "Ecart detecte", raf |-> FlFmt2(d.raf_hours),
                           inv |-> FlFmt2(d.invoice_hours)]>>
                   ELSE <<>>)
                  \o (IF overfull
                      THEN <<[msg |-> " | Semaine a cheval detectee", raf |-> 0, inv |-> 0]>>
                      ELSE <<>>)]

_detect_issues(d) == Issues(d, HoursDiffer(d), SingleDayOverfull(d))

\* the last step of analyze: _detect_issues, unless an exception was raised
Detected(st) == IF st.exc # "" THEN st ELSE [st EXCEPT !.data = _detect_issues(st.data)]

\* analyze() that keeps the record of the call before
analyze_keeping(nodes, d) ==
    Detected(_extract_invoice_data(nodes,
                 _extract_timecards(nodes, [data |-> IF d = <<>> THEN NewData(nodes) ELSE d,
                                            exc  |-> ""])))

\* analyze() with self.data = d when it is called: [data, exc], data being
\* self.data when the call ends.  The first statement overwrites d.
analyze(nodes, d) ==
    Detected(_extract_invoice_data(nodes,
                 _extract_timecards(nodes, [data |-> NewData(nodes), exc |-> ""])))

(***************************************************************************)
(* SimpleXMLProcessor.fix and _correct_line.  The regular expressions act  *)
(* on the characters of one line; here they are the token shapes those     *)
(* characters spell.                                                       *)
(***************************************************************************)
\* [\d.]+ : a numeral with nothing around it
Digits(tok) == tok.k = "text" /\ tok.t.num /\ ~tok.t.pad

\* [^<]+ : any character data
AnyChars(tok) == tok.k = "text" /\ tok.t # NoText

\* <Tag>[\d.]+</Tag> starts at token i
TotalAt(line, i, name) ==
    /\ i + 2 <= Len(line)
    /\ line[i] = Open("", name, "", <<>>)
    /\ Digits(line[i + 1])
    /\ line[i + 2] = Close("", name)

\* owner="X">...< starts at token i
OwnerAt(line, i, owner, numeric) ==
    /\ i + 2 <= Len(line)
    /\ line[i].k = "open" /\ line[i].attr = "owner" /\ line[i].val = <<owner>>
    /\ IF numeric THEN Digits(line[i + 1]) ELSE AnyChars(line[i + 1])
    /\ line[i + 2].k # "text"

\* <ItemQuantity[^>]*>[\d.]+</ItemQuantity> starts at token i
QuantityAt(line, i) ==
    /\ i + 2 <= Len(line)
    /\ line[i].k = "open" /\ line[i].pre = "" /\ line[i].name = <<"Item", "Quantity">>
    /\ Digits(line[i + 1])
    /\ line[i + 2] = Close("", <<"Item", "Quantity">>)

\* re.sub: the character data of the matches, which start at the positions
\* at, is replaced by t
Sub(line, at, t) ==
    <<>> \o [i \in 1..Len(line) |-> IF i - 1 \in at THEN Chars(t) ELSE line[i]]

\* re.sub of a total pattern, of an owner pattern, of the ItemQuantity pattern
SubTotals(line, name, t) == Sub(line, {i \in 1..Len(line) : TotalAt(line, i, name)}, t)

SubOwners(line, owner, digits, t) ==
    Sub(line, {i \in 1..Len(line) : OwnerAt(line, i, owner, digits)}, t)

SubQuantities(line, t) == Sub(line, {i \in 1..Len(line) : QuantityAt(line, i)}, t)

\* f'{period}'
FmtPeriod(period) == IF period = NoText THEN Str(<<"None">>) ELSE period

\* x in line, for a word x: in a name, an attribute value or character data
LineHas(line, x) ==
    \E i \in 1..Len(line) :
        InWords(x, line[i].name) \/ InWords(x, line[i].val) \/ InWords(x, line[i].t.ws)

\* 'HS 125' in line
LineHasHS125(line) ==
    \E i \in 1..Len(line) : \E j \in 1..Len(line[i].t.ws) :
        j < Len(line[i].t.ws) /\ line[i].t.ws[j] = "HS" /\ line[i].t.ws[j + 1] = "125"

\* 'ItemQuantity' in line
LineHasItemQuantity(line) ==
    \E i \in 1..Len(line) : \E j \in 1..Len(line[i].name) :
        j < Len(line[i].name) /\ line[i].name[j] = "Item" /\ line[i].name[j + 1] = "Quantity"

\* 'uom="HUR"' in line
LineHasUomHUR(line) ==
    \E i \in 1..Len(line) : line[i].k = "open" /\ line[i].attr = "uom" /\ line[i].val = <<"HUR">>

\* '<Line>' in line
LineHasLineTag(line) == \E i \in 1..Len(line) : line[i] = Open("", <<"Line">>, "", <<>>)

\* the six patterns of _correct_line, applied in order
Patterns(line, corrections) ==
    SubOwners(
      SubOwners(
        SubOwners(
          SubTotals(
            SubTotals(
              SubTotals(line, <<"Total", "Charges">>,
                        Num(DecFmt2(corrections.total_charges))),
              <<"Total", "Tax">>,
              Num(DecFmt2(DecMul(corrections.total_charges, [n |-> Big(20), p |-> 2])))),
            <<"Total", "Amount">>,
            Num(DecFmt2(DecMul(corrections.total_charges, [n |-> Big(120), p |-> 2])))),
          "NbHeuresFacturees", TRUE, Num(FlFmt2(corrections.hours_to_invoice))),
        "DEB_PER", FALSE, FmtPeriod(corrections.period)),
      "FIN_PER", FALSE, FmtPeriod(corrections.period))

\* the first match of the ItemQuantity pattern in the line, 0 for none
FirstQuantity(line) ==
    IF \E i \in 1..Len(line) : QuantityAt(line, i)
    THEN CHOOSE i \in 1..Len(line) :
             QuantityAt(line, i) /\ \A j \in 1..(i - 1) : ~QuantityAt(line, j)
    ELSE 0

\* old_qty * float(corrections['total_charges'] / Decimal(str(total_charges)))
NewQuantity(old_qty, corrections, d) ==
    FlMul(old_qty, DecToFloat(DecDiv(corrections.total_charges, FlRepr(d.total_charges))))

\* the line holds 'ItemQuantity' and 'uom="HUR"', and the pattern matches
Scaled(line) == LineHasItemQuantity(line) /\ LineHasUomHUR(line) /\ FirstQuantity(line) # 0

\* float(match.group(1))
OldQuantity(line) == float(line[FirstQuantity(line) + 1].t)

\* the line is replaced by the comment
Removed(line, corrections, d) ==
    /\ corrections.period = d.period_start
    /\ LineHas(line, "Supplementaire") \/ LineHas(line, "RTT") \/ LineHasHS125(line)
    /\ LineHasLineTag(line)
    /\ LineHas(line, "Supplementaire") \/ LineHas(line, "RTT")

\* new_line after the ItemQuantity block
Requantified(new_line, line, corrections, d) ==
    IF Scaled(line)
    THEN SubQuantities(new_line, Num(FlFmt2(NewQuantity(OldQuantity(line), corrections, d))))
    ELSE new_line

\* _correct_line: the new line, or the exception it raises
_correct_line(line, corrections, d) ==
    IF Scaled(line) /\ d.total_charges = FlZero
    THEN [line |-> <<>>, exc |-> "InvalidOperation"]
    ELSE [line |-> IF Removed(line, corrections, d) THEN <<RemovedComment>>
                   ELSE Requantified(Patterns(line, corrections), line, corrections, d),
          exc  |-> ""]

\* raf_hours / invoice_hours if invoice_hours > 0 else 1, as Decimal(str(ratio))
Ratio(d) == IF FlLess(FlZero, d.invoice_hours)
            THEN FlRepr(FlDiv(d.raf_hours, d.invoice_hours))
            ELSE [n |-> Big(1), p |-> 0]

Corrections(d) ==
    [total_charges    |-> DecMul(FlRepr(d.total_charges), Ratio(d)),
     hours_to_invoice |-> d.raf_hours,
     period           |-> d.period_start]

\* [self._correct_line(line, corrections) for line in lines]
\* new_lines, or the exception one of the lines raised
NewLines(new) ==
    IF \E i \in 1..Len(new) : new[i].exc # ""
    THEN [lines |-> <<>>, exc |-> new[CHOOSE i \in 1..Len(new) : new[i].exc # ""].exc]
    ELSE [lines |-> [i \in 1..Len(new) |-> new[i].line], exc |-> ""]

CorrectLines(lines, corrections, d) ==
    NewLines(<<>> \o [i \in 1..Len(lines) |-> _correct_line(lines[i], corrections, d)])

\* data.get('has_issue'), data being {} before the first analyze
HasIssue(d) == "has_issue" \in DOMAIN d /\ d.has_issue

\* '\n'.join(new_lines)
Joined(new_lines) == [text |-> JoinLines(new_lines.lines), exc |-> new_lines.exc]

\* fix(): the text returned, or the exception raised
fix(text, d) ==
    IF ~HasIssue(d) THEN [text |-> text, exc |-> ""]
    ELSE Joined(CorrectLines(text, Corrections(d), d))

(***************************************************************************)
(* The documents the model is run on: one base invoice (a week of 38 h     *)
(* invoiced, 8 h to invoice) and families that vary one part of it.        *)
(***************************************************************************)
MaxHourLines == 2

NoElem == <<>>

\* a two-line element: <name>t, then </name> on the next line
BrokenElem(name, t) == <<<<Open("", name, "", <<>>), Chars(t)>>, <<Close("", name)>>>>

IntervalLine(iv) ==
    <<Open("", <<"Time", "Interval">>, "type", iv.type),
      Open("", <<"Duration">>, "", <<>>), Chars(iv.dur), Close("", <<"Duration">>),
      Close("", <<"Time", "Interval">>)>>

TimeCardLines(p) ==
    IF ~p.tcard THEN <<>>
    ELSE (IF p.wrap THEN <<<<Open("", <<"Staffing", "Time", "Card">>, "", <<>>)>>>> ELSE <<>>)
         \o <<<<Open("", <<"Time", "Card">>, "", <<>>)>>>>
         \o (IF p.ps = NoText THEN <<>>
             ELSE IF p.psBreak THEN BrokenElem(<<"Period", "Start", "Date">>, p.ps)
             ELSE <<Elem("", <<"Period", "Start", "Date">>, "", <<>>, p.ps)>>)
         \o (IF p.pe = NoText THEN <<>>
             ELSE <<Elem("", <<"Period", "End", "Date">>, "", <<>>, p.pe)>>)
         \o [i \in 1..Len(p.ivs) |-> IntervalLine(p.ivs[i])]
         \o <<<<Close("", <<"Time", "Card">>)>>>>
         \o (IF p.wrap THEN <<<<Close("", <<"Staffing", "Time", "Card">>)>>>> ELSE <<>>)

TotalsLines(p) ==
    (IF p.tch = NoElem THEN <<>>
     ELSE <<Elem(p.tch.pre, <<"Total", "Charges">>, "", <<>>, p.tch.t)>>)
    \o <<Elem("", <<"Total", "Tax">>, "", <<>>, p.tax),
         Elem("", <<"Total", "Amount">>, "", <<>>, p.amt),
         Elem("", <<"Value">>, "owner", <<"NbHeuresFacturees">>, Num(3800)),
         Elem("", <<"Value">>, "owner", <<"DEB_PER">>, Str(<<"2024-08-26">>)),
         Elem("", <<"Value">>, "owner", <<"FIN_PER">>, Str(<<"2024-08-30">>))>>

\* the lines of one invoice line; oneline: the whole element on one text
\* line; wrapped: the <Line> inside an <InvoiceLine>
ItemLines(it) ==
    LET open  == <<Open("", <<"Line">>, "", <<>>)>>
        desc  == Elem("", <<"Description">>, "", <<>>, Str(it.desc))
        qty   == Elem("", <<"Item", "Quantity">>, "uom", it.uom, it.qty)
                 \o (IF it.rate THEN Elem("", <<"Unit", "Price">>, "uom", <<"HUR">>, Num(1250))
                                ELSE <<>>)
        total == <<Open("", <<"Charge">>, "", <<>>)>>
                 \o Elem("", <<"Total">>, "", <<>>, it.total)
                 \o <<Close("", <<"Charge">>)>>
        close == <<Close("", <<"Line">>)>>
    IN  CASE it.layout = "oneline" -> <<open \o desc \o qty \o total \o close>>
          [] it.layout = "head"    -> <<open \o desc, qty, total, close>>
          [] it.layout = "wrapped" -> <<<<Open("", <<"Invoice", "Line">>, "", <<>>)>>,
                                        open, desc, qty, total, close,
                                        <<Close("", <<"Invoice", "Line">>)>>>>
          [] OTHER                 -> <<open, desc, qty, total, close>>

RECURSIVE ItemsLines(_)
ItemsLines(items) ==
    IF items = <<>> THEN <<>> ELSE ItemLines(items[1]) \o ItemsLines(Tail(items))

Doc(p) ==
    <<<<Open("", <<"Invoice">>, "xmlns:ns", <<"urn:pixid">>)>>>>
    \o TimeCardLines(p) \o TotalsLines(p) \o ItemsLines(p.items)
    \o <<<<Close("", <<"Invoice">>)>>>>

Hours(c) == [type |-> <<"Heures", "normales">>, dur |-> Num(c)]

Item(desc, uom, qty, total) ==
    [desc |-> desc, uom |-> uom, qty |-> qty, total |-> total, rate |-> FALSE,
     layout |-> "lines"]

HourItem(c) == Item(<<"Heures", "normales">>, <<"HUR">>, Num(c), Num(85476))

Base ==
    [tcard |-> TRUE, wrap |-> FALSE, ps |-> Str(<<"2024-08-26">>), psBreak |-> FALSE,
     pe |-> Str(<<"2024-08-30">>), ivs |-> <<Hours(800)>>,
     tch |-> [pre |-> "", t |-> Num(85476)], tax |-> Num(17095), amt |-> Num(102571),
     items |-> <<HourItem(3800)>>]

\* hours to invoice against hours invoiced, around the 0.01 tolerance
HoursFamily ==
    {[Base EXCEPT !.ivs = <<Hours(r)>>, !.items = <<HourItem(q)>>] :
        r \in {100, 101, 102, 800, 801, 3800}, q \in {100, 800, 3800}}
    \cup {[Base EXCEPT !.tcard = FALSE, !.items = <<HourItem(q)>>] : q \in {800, 3800}}

\* the authoritative period: one day, several days, unset, not a date, and a
\* start date whose text runs over the line end
PeriodFamily ==
    {[Base EXCEPT !.ps = pp[1], !.pe = pp[2], !.psBreak = pp[3],
                  !.ivs = <<Hours(r)>>, !.items = <<HourItem(q)>>] :
        pp \in {<<Str(<<"2024-08-30">>), Str(<<"2024-08-30">>), FALSE>>,
                <<Str(<<"2024-08-30">>), Str(<<"2024-08-30T18:00:00">>), FALSE>>,
                <<Str(<<"2024-08-30">>), Str(<<"2024-08-31">>), FALSE>>,
                <<Str(<<"2024-08-30">>), NoText, FALSE>>,
                <<NoText, NoText, FALSE>>,
                <<Str(<<"semaine", "35">>), Str(<<"semaine", "35">>), FALSE>>,
                <<Str(<<"2024-08-30">>), Str(<<"2024-08-30">>), TRUE>>},
        r \in {800, 3800}, q \in {800, 3800}}

\* the net total: small, absent, prefixed, blank-padded
ChargesFamily ==
    {[Base EXCEPT !.tch = t, !.ivs = <<Hours(r)>>, !.items = <<HourItem(q)>>] :
        t \in {NoElem, [pre |-> "", t |-> Num(62)], [pre |-> "", t |-> Num(10000)],
               [pre |-> "ns:", t |-> Num(85476)], [pre |-> "", t |-> Padded(85476)]},
        r \in {100, 800}, q \in {500, 3800}}

\* text that is no number in each field read as a number
NotANumber == Str(<<"abc">>)

NonNumericFamily ==
    {[Base EXCEPT !.ivs = <<[type |-> <<"Heures", "normales">>, dur |-> NotANumber]>>],
     [Base EXCEPT !.tch = [pre |-> "", t |-> NotANumber]],
     [Base EXCEPT !.tax = NotANumber],
     [Base EXCEPT !.amt = NotANumber],
     [Base EXCEPT !.items = <<[HourItem(3800) EXCEPT !.qty = NotANumber]>>],
     [Base EXCEPT !.items = <<[HourItem(3800) EXCEPT !.total = NotANumber]>>]}

Panier == Item(<<"Panier", "repas">>, <<"PCE">>, Num(500), Num(4500))

Overtime == Item(<<"Heures", "Supplementaires">>, <<"HUR">>, Num(300), Num(9000))

RECURSIVE Repeat(_, _)
Repeat(x, n) == IF n = 0 THEN <<>> ELSE <<x>> \o Repeat(x, n - 1)

\* the invoice lines: none in hours, other units, overtime and RTT lines in
\* the layouts a serializer writes, several lines in hours
LinesFamily ==
    {[Base EXCEPT !.items = its] :
        its \in {<<Panier>>,
                 <<HourItem(3800), Panier>>,
                 <<HourItem(3800), [Panier EXCEPT !.rate = TRUE]>>,
                 <<HourItem(3800), [Panier EXCEPT !.layout = "oneline"]>>,
                 <<[HourItem(3800) EXCEPT !.layout = "oneline"]>>,
                 <<HourItem(3500), Overtime>>,
                 <<HourItem(3500), [Overtime EXCEPT !.layout = "head"]>>,
                 <<HourItem(3500), [Overtime EXCEPT !.layout = "oneline"]>>,
                 <<HourItem(3800), Item(<<"RTT">>, <<"HUR">>, Num(700), Num(15000))>>,
                 <<HourItem(3800),
                   [Item(<<"HS", "125">>, <<"HUR">>, Num(300), Num(9000))
                        EXCEPT !.layout = "oneline"]>>}}
    \cup {[Base EXCEPT !.ivs = <<Hours(r)>>, !.items = Repeat(HourItem(q), n)] :
            r \in {100, 800}, q \in {100, 1900}, n \in 2..(MaxHourLines + 1)}

\* the type of the time intervals: in French, in English, in capitals,
\* of another kind, and several intervals in one TimeCard
IntervalFamily ==
    {[Base EXCEPT !.ivs = ivs, !.items = <<HourItem(q)>>] :
        ivs \in {<<[type |-> <<"Hours">>, dur |-> Num(3800)]>>,
                 <<[type |-> <<"HEURES">>, dur |-> Num(3800)]>>,
                 <<Hours(800), [type |-> <<"Hours", "regular">>, dur |-> Num(300)]>>,
                 <<Hours(800), [type |-> <<"Panier">>, dur |-> Num(100)]>>,
                 <<Hours(800), Hours(300)>>},
        q \in {800, 3800}}

\* a TimeCard inside a StaffingTimeCard, a Line inside an InvoiceLine
NestedFamily ==
    {[Base EXCEPT !.wrap = w, !.ivs = <<Hours(r)>>,
                  !.items = <<[HourItem(3800) EXCEPT !.layout = l]>>] :
        w \in BOOLEAN, l \in {"lines", "wrapped"}, r \in {800, 3800}}

Inputs == {Doc(p) : p \in HoursFamily \cup PeriodFamily \cup ChargesFamily
                          \cup NonNumericFamily \cup LinesFamily
                          \cup IntervalFamily \cup NestedFamily}

(***************************************************************************)
(* One processor at a time.  xml_string, root and data are its fields; ret *)
(* is what the last call returned or raised; first keeps the outcome of    *)
(* the first analyze and of the first fix made after an analyze; calls     *)
(* counts the calls on this processor and gen the corrected files that     *)
(* were uploaded again.                                                    *)
(***************************************************************************)
MaxCalls == 3
MaxGen == 1

VARIABLES xml_string, root, data, ret, first, calls, gen

vars == <<xml_string, root, data, ret, first, calls, gen>>

Constructed == [op |-> "new", exc |-> "", text |-> <<>>]

NoCalls == [analysis |-> <<>>, fix |-> <<>>]

\* SimpleXMLProcessor(xml_content) on an uploaded document
Init ==
    /\ \E xml_content \in Inputs :
          /\ xml_string = xml_content
          /\ root = fromstring(xml_content).nodes
    /\ data = <<>>
    /\ ret = Constructed
    /\ first = NoCalls
    /\ calls = 0
    /\ gen = 0

\* processor.analyze()
Analyze ==
    /\ root # <<>>
    /\ calls < MaxCalls
    /\ \E r \in {analyze(root, data)} :
           /\ data' = r.data
           /\ ret' = [op |-> "analyze", exc |-> r.exc, text |-> <<>>]
           /\ first' = IF first.analysis = <<>>
                       THEN [first EXCEPT !.analysis = <<r>>] ELSE first
    /\ calls' = calls + 1
    /\ UNCHANGED <<xml_string, root, gen>>

\* processor.fix()
Fix ==
    /\ root # <<>>
    /\ calls < MaxCalls
    /\ \E r \in {fix(xml_string, data)} :
           /\ ret' = [op |-> "fix", exc |-> r.exc, text |-> r.text]
           /\ first' = IF data # <<>> /\ first.fix = <<>>
                       THEN [first EXCEPT !.fix = <<r>>] ELSE first
    /\ calls' = calls + 1
    /\ UNCHANGED <<xml_string, root, data, gen>>

\* the corrected file is uploaded: SimpleXMLProcessor(xml_content) on the
\* text the last fix returned for a document with an issue
Reload ==
    /\ ret.op = "fix" /\ ret.exc = ""
    /\ HasIssue(data)
    /\ gen < MaxGen
    /\ \E p \in {fromstring(ret.text)} :
           /\ xml_string' = ret.text
           /\ root' = IF p.ok THEN p.nodes ELSE <<>>
           /\ ret' = [Constructed EXCEPT !.exc = IF p.ok THEN "" ELSE "ParseError"]
    /\ data' = <<>>
    /\ first' = NoCalls
    /\ calls' = 0
    /\ gen' = gen + 1

Next == Analyze \/ Fix \/ Reload

Spec == Init /\ [][Next]_vars

(***************************************************************************)
(* The properties.  Hours and amounts are compared as the documents carry  *)
(* them, in hundredths.                                                    *)
(***************************************************************************)
Hundredths(f) == FlFmt2(f)

Abs(x) == IF x < 0 THEN -x ELSE x

\* the last analyze returned its record
Analyzed == ret.op = "analyze" /\ ret.exc = ""

\* the last fix returned a text
Returned == ret.op = "fix" /\ ret.exc = ""

\* the last fix returned a text for a record with an issue
Corrected == Returned /\ HasIssue(data)

\* |rafHours - invoiceHours|
HoursGap(d) == Abs(Hundredths(d.raf_hours) - Hundredths(d.invoice_hours))

\* both period bounds are present and parse to the same calendar day
SameDay(d) ==
    /\ truthy(d.period_start) /\ truthy(d.period_end)
    /\ DateOf(d.period_start) # 0 /\ DateOf(d.period_end) # 0
    /\ DateOf(d.period_start) = DateOf(d.period_end)

\* the single-day heuristic fires
Heuristic(d) == SameDay(d) /\ Hundredths(d.invoice_hours) > 1200

\* the amount of the last element of a text whose name ends with name and
\* that holds a numeral, -1 when there is none
Written(text, name) ==
    LET s   == Stream(text)
        at  == {i \in 1..(Len(s) - 1) : /\ s[i].tok.k = "open"
                                        /\ EndsWith(s[i].tok.name, name)
                                        /\ s[i + 1].tok.k = "text"
                                        /\ s[i + 1].tok.t.num}
    IN  IF at = {} THEN -1
        ELSE s[(CHOOSE i \in at : \A j \in at : j <= i) + 1].tok.t.c

\* n / d to the nearest integer, for n / d that is never half-way
Nearest(n, d) == (2 * n + d) \div (2 * d)

\* C1: fix never fails: every call of fix, whatever the document and the
\* record, returns a text and raises no error.
FixNeverFails == ret.op = "fix" => ret.exc = ""

\* a call of fix raised
FixRaised == ret.op = "fix" /\ ret.exc = "InvalidOperation"

\* C2: analyze succeeds on every well-formed document: no error reaches the
\* caller, whatever text the numeric fields hold.
AnalyzeSucceeds == ret.op = "analyze" => ret.exc = ""

\* a call of analyze raised
AnalyzeRaised == ret.op = "analyze" /\ ret.exc = "ValueError"

\* C3: when the hours differ by at most 0.01 and the single-day heuristic
\* does not fire, analyze sets hasIssue to false; and fix returns the
\* original text whenever hasIssue is false.
NoIssueNoChange ==
    /\ Analyzed /\ HoursGap(data) <= 1 /\ ~Heuristic(data) => ~data.has_issue
    /\ ret.op = "fix" /\ ~HasIssue(data) => ret.exc = "" /\ ret.text = xml_string

\* hours 0.01 apart, no heuristic, and an issue all the same
IssueWithinTolerance ==
    Analyzed /\ HoursGap(data) = 1 /\ ~Heuristic(data) /\ data.has_issue

\* C4: when hasIssue is true with invoiceHours > 0 and totalCharges > 0,
\* the TotalCharges of the returned text over the extracted totalCharges
\* equals rafHours / invoiceHours within 0.01.
ChargesFollowRatio ==
    Corrected /\ FlLess(FlZero, data.invoice_hours) /\ FlLess(FlZero, data.total_charges)
    => LET w == Written(ret.text, <<"Total", "Charges">>)
           t == Hundredths(data.total_charges)
           r == Hundredths(data.raf_hours)
           i == Hundredths(data.invoice_hours)
       IN  Abs(w * i - r * t) <= (t * i) \div 100

\* a corrected text whose TotalCharges is the original one, the hours being
\* in another ratio than 1
ChargesLeftAsTheyWere ==
    /\ Corrected /\ FlLess(FlZero, data.invoice_hours) /\ FlLess(FlZero, data.total_charges)
    /\ HoursGap(data) > 1
    /\ Written(ret.text, <<"Total", "Charges">>) = Hundredths(data.total_charges)

\* C5: in a corrected text the written TotalTax is the written TotalCharges
\* times 0.20 and the written TotalAmount the written TotalCharges times
\* 1.20, to 2 decimals, and the gross is the net plus the tax.
TaxAndGrossFollowNet ==
    LET net   == Written(ret.text, <<"Total", "Charges">>)
        tax   == Written(ret.text, <<"Total", "Tax">>)
        gross == Written(ret.text, <<"Total", "Amount">>)
    IN  Corrected /\ net >= 0 /\ tax >= 0 /\ gross >= 0
        => /\ tax = Nearest(net * 20, 100)
           /\ gross = Nearest(net * 120, 100)
           /\ gross = net + tax

\* a corrected text whose three totals were all rewritten and whose gross
\* is not the net plus the tax
GrossOffByOne ==
    LET net   == Written(ret.text, <<"Total", "Charges">>)
        tax   == Written(ret.text, <<"Total", "Tax">>)
        gross == Written(ret.text, <<"Total", "Amount">>)
    IN  /\ Corrected /\ net >= 0 /\ tax >= 0
        /\ net # Written(xml_string, <<"Total", "Charges">>)
        /\ tax # Written(xml_string, <<"Total", "Tax">>)
        /\ gross # Written(xml_string, <<"Total", "Amount">>)
        /\ gross = net + tax + 1

\* C6: the corrected text of a document with an issue is read again without
\* error and analyzes to hasIssue false, so that fix returns it unchanged.
CorrectionIsIdempotent ==
    gen > 0 => /\ ret.exc = ""
               /\ ret.op = "analyze" => ~data.has_issue
               /\ ret.op = "fix" => ret.text = xml_string

\* a corrected text that still has an issue
StillAnIssue == gen > 0 /\ Analyzed /\ data.has_issue

\* C7: the text fix returns has as many lines as the original text.
SameLineCount == Returned => Len(ret.text) = Len(xml_string)

\* a corrected text with more lines than the original
OneMoreLine == Corrected /\ Len(ret.text) > Len(xml_string)

\* C8: a call never modifies the retained text, fix never changes the
\* record, every analyze returns the record the first analyze returned,
\* every fix after an analyze returns what the first such fix returned, and
\* a fix before any analyze returns the original text.
CallsRepeat ==
    [][calls' > calls =>
         /\ xml_string' = xml_string
         /\ ret'.op = "fix" =>
               /\ data' = data
               /\ data = <<>> => ret'.exc = "" /\ ret'.text = xml_string
               /\ data # <<>> /\ first.fix # <<>> =>
                     [text |-> ret'.text, exc |-> ret'.exc] = first.fix[1]
         /\ ret'.op = "analyze" /\ first.analysis # <<>> =>
               [data |-> data', exc |-> ret'.exc] = first.analysis[1]]_vars

\* a third call, a fix that rewrites the text, after an analyze that found
\* hours and lines
ThirdCallRewrites ==
    /\ calls >= 3 /\ Corrected /\ ret.text # xml_string
    /\ first.analysis # <<>> /\ first.fix # <<>>
    /\ data.lines # <<>> /\ data.raf_hours # FlZero

\* C9: after analyze, hasIssue is true exactly when the hours differ by
\* more than 0.01 or the single-day heuristic fires; otherwise hasIssue is
\* false and issueMessage is empty.
IssueExactlyWhenRuleSays ==
    Analyzed => /\ data.has_issue <=> (HoursGap(data) > 1 \/ Heuristic(data))
                /\ ~data.has_issue => data.issue_message = <<>>

\* hours exactly 0.01 apart reported as an issue
IssueAtExactlyOneHundredth ==
    /\ Analyzed /\ data.has_issue /\ HoursGap(data) = 1 /\ ~Heuristic(data)
    /\ data.issue_message # <<>>

\* a line that holds one of the patterns fix targets
Targeted(line) ==
    \/ \E i \in 1..Len(line) :
          /\ line[i].k = "open"
          /\ \/ /\ \/ EndsWith(line[i].name, <<"Total", "Charges">>)
                   \/ EndsWith(line[i].name, <<"Total", "Tax">>)
                   \/ EndsWith(line[i].name, <<"Total", "Amount">>)
                /\ i < Len(line) /\ line[i + 1].k = "text" /\ line[i + 1].t.num
             \/ /\ line[i].attr = "owner"
                /\ line[i].val \in {<<"NbHeuresFacturees">>, <<"DEB_PER">>, <<"FIN_PER">>}
             \/ /\ EndsWith(line[i].name, <<"Item", "Quantity">>)
                /\ line[i].attr = "uom" /\ line[i].val = <<"HUR">>
    \/ /\ LineHasLineTag(line)
       /\ LineHas(line, "Supplementaire") \/ LineHas(line, "RTT") \/ LineHasHS125(line)

\* C10: when hasIssue is true, every line of the original text that holds
\* none of the targeted patterns is found identical, at the same index, in
\* the returned text.
OtherLinesUntouched ==
    Corrected => \A k \in 1..Len(xml_string) :
                    ~Targeted(xml_string[k])
                    => k <= Len(ret.text) /\ ret.text[k] = xml_string[k]

\* a line without any targeted pattern rewritten in place
OtherLineRewritten ==
    /\ Corrected /\ Len(ret.text) = Len(xml_string)
    /\ \E k \in 1..Len(xml_string) :
          ~Targeted(xml_string[k]) /\ ret.text[k] # xml_string[k]

\* the number of lines of a text that are the removal comment
Comments(text) == Cardinality({k \in 1..Len(text) : text[k] = <<RemovedComment>>})

\* the number of lines of a text that hold a <Line> open tag and a
\* Supplementaire or RTT marker
Marked(text) ==
    Cardinality({k \in 1..Len(text) :
                    /\ LineHasLineTag(text[k])
                    /\ LineHas(text[k], "Supplementaire") \/ LineHas(text[k], "RTT")})

\* C11: fix replaces a line by the removal comment only when the
\* authoritative period is a single day and the line holds a <Line> open
\* tag with a Supplementaire or RTT marker: when the period spans several
\* days or is unset, the returned text has no more removal comments than
\* the original, and never more new ones than there are marked lines.
RemovalOnlyOnSingleDay ==
    Corrected => /\ Comments(ret.text) > Comments(xml_string) => SameDay(data)
                 /\ Comments(ret.text) - Comments(xml_string) <= Marked(xml_string)

\* a marked line replaced by the comment although the period spans
\* several days
RemovedOnSeveralDays ==
    /\ Corrected /\ Comments(ret.text) > Comments(xml_string)
    /\ truthy(data.period_start) /\ truthy(data.period_end)
    /\ DateOf(data.period_start) # 0 /\ DateOf(data.period_end) # 0
    /\ DateOf(data.period_start) < DateOf(data.period_end)

\* the type label, compared without case, contains "hour" or "heure"
MentionsHours(ws) ==
    \E i \in 1..Len(ws) : Lower(ws[i]) \in {"hour", "hours", "heure", "heures"}

\* the element i lies inside an element named TimeCard
RECURSIVE InsideTimeCard(_, _)
InsideTimeCard(nodes, i) ==
    LET parent == _get_parent(nodes, i)
    IN  parent # 0 /\ (nodes[parent].name = <<"Time", "Card">> \/ InsideTimeCard(nodes, parent))

\* the element i is the Duration of a TimeInterval of hours inside a TimeCard
HoursDuration(nodes, i) ==
    LET interval == _get_parent(nodes, i)
    IN  /\ nodes[i].name = <<"Duration">> /\ nodes[i].text.num
        /\ interval # 0
        /\ nodes[interval].name = <<"Time", "Interval">>
        /\ MentionsHours(Get(nodes[interval], "type", <<>>))
        /\ InsideTimeCard(nodes, interval)

\* the sum, in hundredths, of those Durations from element i on
RECURSIVE DurationSum(_, _)
DurationSum(nodes, i) ==
    IF i > Len(nodes) THEN 0
    ELSE (IF HoursDuration(nodes, i) THEN nodes[i].text.c ELSE 0) + DurationSum(nodes, i + 1)

\* C12: rafHours returned by analyze is the sum of the Durations of every
\* TimeInterval inside a TimeCard whose type contains "hour" or "heure",
\* compared without case; the other intervals contribute nothing.
RafIsSumOfHourIntervals ==
    Analyzed => Hundredths(data.raf_hours) = DurationSum(root, 1)

\* an interval whose type says "Hours" was left out of rafHours
EnglishHoursLeftOut ==
    /\ Analyzed
    /\ \E i \in 1..Len(root) :
          /\ HoursDuration(root, i)
          /\ ~MentionsHeure(Get(root[_get_parent(root, i)], "type", <<>>))
          /\ root[i].text.c > 0
    /\ Hundredths(data.raf_hours) < DurationSum(root, 1)

\* the number of elements named Line
LineCount(nodes) == Cardinality({i \in 1..Len(nodes) : nodes[i].name = <<"Line">>})

\* the sum, in hundredths, of the quantities in hours from element i on
RECURSIVE QuantitySum(_, _)
QuantitySum(nodes, i) ==
    IF i > Len(nodes) THEN 0
    ELSE (IF /\ nodes[i].name = <<"Item", "Quantity">> /\ nodes[i].text.num
             /\ Get(nodes[i], "uom", <<"PCE">>) \in {<<"HUR">>, <<"hur">>}
          THEN nodes[i].text.c ELSE 0) + QuantitySum(nodes, i + 1)

\* C13: no double counting: in one analyze call each Duration is added to
\* rafHours at most once, and each Line is appended to lines, and its
\* quantity added to invoiceHours, at most once, whatever the nesting of the
\* elements.
NoDoubleCounting ==
    Analyzed => /\ Hundredths(data.raf_hours) <= DurationSum(root, 1)
                /\ Len(data.lines) <= LineCount(root)
                /\ Hundredths(data.invoice_hours) <= QuantitySum(root, 1)

\* a Duration and a Line that were each counted twice
CountedTwice ==
    /\ Analyzed
    /\ DurationSum(root, 1) > 0 /\ Hundredths(data.raf_hours) = 2 * DurationSum(root, 1)
    /\ LineCount(root) > 0 /\ Len(data.lines) = 2 * LineCount(root)
    /\ Hundredths(data.invoice_hours) = 2 * QuantitySum(root, 1)

====
